---- MODULE Spec2Model ----
(***************************************************************************)
(* Model of the stress-classifier pipelines of ml_model/train_model.py     *)
(* (tree ensemble) and ml_model/convert_to_tflite.py (compact network).    *)
(*                                                                         *)
(* Three specifications share the module:                                  *)
(*   LabelSpec  the two dataset generators as functions of the values they *)
(*              draw: normalisation, stress score, percentile threshold,   *)
(*              labels;                                                    *)
(*   RngSpec    the generators as users of numpy's global pseudo-random    *)
(*              stream (seeding and consumption);                          *)
(*   PipeSpec   the control flow of the two scripts: stages, the training  *)
(*              epochs, the files they read and write, the exceptions.     *)
(*              FairPipeSpec adds the progress of a running interpreter.   *)
(*                                                                         *)
(* Real numbers are kept exact as integers over a fixed denominator:       *)
(* raw features in 1/RawDen, normalised features in 1/NormDen, scores in   *)
(* 1/ScoreDen(variant), thresholds in 1/(PctDen*ScoreDen(variant)).        *)
(***************************************************************************)
EXTENDS Integers, Sequences, FiniteSets, TLC

VARIABLES
    \* ---- the generators (LabelSpec, RngSpec)
    draws,        \* the raw values drawn from the four distributions
    variant,      \* which generator has run: "none", "ensemble", "compact"
    features,     \* the feature columns the generator returns
    stress_score, \* the stress score of each sample
    threshold,    \* np.percentile(stress_score, 70), scaled by PctDen
    labels,       \* the labels the generator returns
    \* ---- numpy's global stream (RngSpec)
    rng,          \* state of the global generator
    first,        \* the dataset each (generator, n) returned at its first call
    \* ---- the scripts (PipeSpec)
    script,       \* "ensemble" (train_model.py) or "compact" (convert_to_tflite.py)
    pc,           \* the next stage of the script
    status,       \* "running", "done", "aborted"
    failedAt,     \* the stage whose exception ended the run, or "none"
    fs,           \* the three model files
    data,         \* sizes of the dataset and of its train and test parts
    model,        \* the forest: being trained (ensemble) or loaded (compact)
    epoch,        \* epochs of tf_model.fit completed
    tf_model,     \* the in-memory network
    tflite_model, \* the bytes converter.convert() returned
    output,       \* the sample prediction the interpreter returned
    log           \* the stages completed, in order

genVars == <<draws, variant, features, stress_score, threshold, labels>>
rngVars == <<rng, first>>
pipeVars == <<script, pc, status, failedAt, fs, data, model, epoch, tf_model, tflite_model,
              output, log>>
vars == <<draws, variant, features, stress_score, threshold, labels, rng, first,
          script, pc, status, failedAt, fs, data, model, epoch, tf_model, tflite_model,
          output, log>>

Range(s) == {s[i] : i \in DOMAIN s}

Abs(x) == IF x < 0 THEN -x ELSE x

(***************************************************************************)
(* Units.                                                                  *)
(***************************************************************************)
\* raw features are kept in hundredths
RawDen == 10 * 10
\* normalised features are kept in 1/6000, which makes the four divisions exact
NormDen == 60 * RawDen
\* np.percentile takes q in percent
PctDen == 100

ScoreDen(v) == IF v = "ensemble" THEN 10000 ELSE 60000

(***************************************************************************)
(* Bounds of the model.                                                    *)
(***************************************************************************)
\* longest batch enumerated up to the order of its samples
MaxN == 8
\* longest batch enumerated in every order
MaxOrdered == 3
\* largest sample count a generator is called with in RngSpec
MaxCallN == 2
\* number of states of the modelled pseudo-random generator
RngMod == 16
\* a probability is kept in 1/ProbOne
ProbOne == 20
\* largest change of a prediction by the conversion, in 1/ProbOne
MaxQErr == 2

(***************************************************************************)
(* The values a draw can produce: nine feature vectors (in 1/RawDen),      *)
(* around the means of the four distributions.  Their ensemble scores are  *)
(* pairwise distinct; two of them tie in the compact score.                *)
(***************************************************************************)
Sample(ts, br, tp, sl) ==
    [typing_speed |-> ts, backspace_ratio |-> br, touch_pressure |-> tp, session_length |-> sl]

SampleSpace ==
    << Sample(500, 10, 60, 6000), Sample(650, 30, 40, 3000), Sample(350, 10, 80, 12000),
       Sample(500, 30, 60, 3000), Sample(650, 10, 60, 6000), Sample(350, 30, 40, 12000),
       Sample(500, 10, 80, 6000), Sample(650, 10, 40, 12000), Sample(350, 40, 60, 3000) >>

RECURSIVE AllIndexSeqs(_)
AllIndexSeqs(n) ==
    IF n = 0 THEN { <<>> }
    ELSE { Append(s, k) : s \in AllIndexSeqs(n - 1), k \in DOMAIN SampleSpace }

RECURSIVE SortedIndexSeqs(_)
SortedIndexSeqs(n) ==
    IF n = 0 THEN { <<>> }
    ELSE UNION { { Append(s, k) : k \in (IF s = <<>> THEN 1 ELSE s[Len(s)])..Len(SampleSpace) }
                 : s \in SortedIndexSeqs(n - 1) }

\* The batches a generator is applied to.  The labels of a batch do not depend
\* on the order of its samples beyond the position of each label, so the longer
\* batches are enumerated once per multiset; SampleSpace is not ordered by
\* score, so their score vectors are not sorted.
Batches ==
    { [i \in DOMAIN s |-> SampleSpace[s[i]]] :
        s \in (UNION { AllIndexSeqs(n) : n \in 1..MaxOrdered })
              \cup (UNION { SortedIndexSeqs(n) : n \in 1..MaxN }) }

(***************************************************************************)
(* Normalisation (convert_to_tflite.py 43-46), raw 1/RawDen to 1/NormDen.  *)
(***************************************************************************)
\* (typing_speed - 5.0) / 1.5
NormTypingSpeed(x) == ((x - 5 * RawDen) * NormDen * 10) \div (15 * RawDen)
\* backspace_ratio * 5
NormBackspaceRatio(x) == (x * 5 * NormDen) \div RawDen
\* (touch_pressure - 0.6) / 0.2
NormTouchPressure(x) == ((10 * x - 6 * RawDen) * NormDen * 10) \div (2 * RawDen * 10)
\* (session_length - 60) / 60
NormSessionLength(x) == ((x - 60 * RawDen) * NormDen) \div (60 * RawDen)

Normalize(r) ==
    Sample(NormTypingSpeed(r.typing_speed), NormBackspaceRatio(r.backspace_ratio),
           NormTouchPressure(r.touch_pressure), NormSessionLength(r.session_length))

(***************************************************************************)
(* Stress scores.                                                          *)
(***************************************************************************)
SyntheticScoreTenth(r) ==
    (r.typing_speed * 50) + (r.backspace_ratio * 1000) + (r.touch_pressure * 300)
        - (r.session_length * 10)

\* train_model.py 33-38, on the raw columns; result in 1/10000
SyntheticScore(r) ==
    (r.typing_speed * 50) + (r.backspace_ratio * 1000) + (r.touch_pressure * 300)
        - (r.session_length * 1)

\* convert_to_tflite.py 51-56, on the columns as they are at that point
\* (already normalised); result in 1/60000
TrainingScore(x) ==
    (x.typing_speed * 5) + (x.backspace_ratio * 3) + (x.touch_pressure * 3)
        - (x.session_length * 1)

(***************************************************************************)
(* np.percentile(a, q), default method "linear": with h = q/100 * (n-1),   *)
(* the value a_sorted[floor h] + frac(h) * (a_sorted[floor h + 1] -        *)
(* a_sorted[floor h]).  The result is scaled by PctDen.                    *)
(***************************************************************************)
\* the k-th smallest element of s, k counted from 0
KthSmallest(s, k) ==
    CHOOSE v \in Range(s) :
        /\ Cardinality({ i \in DOMAIN s : s[i] < v }) <= k
        /\ k < Cardinality({ i \in DOMAIN s : s[i] <= v })

Percentile(s, q) ==
    LET h  == q * (Len(s) - 1)
        lo == h \div PctDen
        g  == h % PctDen
        a  == KthSmallest(s, lo)
        b  == IF g = 0 THEN a ELSE KthSmallest(s, lo + 1)
    IN  PctDen * a + g * (b - a)

ThresholdQ30(s) == Percentile(s, 30)

\* threshold = np.percentile(stress_score, 70)
Threshold(s) == Percentile(s, 70)

LabelAtOrAbove(sc, thr) == [i \in DOMAIN sc |-> IF PctDen * sc[i] >= thr THEN 1 ELSE 0]

\* (stress_score > threshold).astype(int)
Label(sc, thr) == [i \in DOMAIN sc |-> IF PctDen * sc[i] > thr THEN 1 ELSE 0]

(***************************************************************************)
(* The two generators, applied to the values drawn.                        *)
(***************************************************************************)
SyntheticDataOf(d) ==
    LET sc == [i \in DOMAIN d |-> SyntheticScore(d[i])]
        th == Threshold(sc)
    IN  [features |-> d, score |-> sc, threshold |-> th, labels |-> Label(sc, th)]

TrainingDataOf(d) ==
    LET x  == [i \in DOMAIN d |-> Normalize(d[i])]
        sc == [i \in DOMAIN d |-> TrainingScore(x[i])]
        th == Threshold(sc)
    IN  [features |-> x, score |-> sc, threshold |-> th, labels |-> Label(sc, th)]

Returned(v, r) ==
    /\ variant' = v
    /\ features' = r.features
    /\ stress_score' = r.score
    /\ threshold' = r.threshold
    /\ labels' = r.labels

GenIdle ==
    /\ variant = "none"
    /\ features = <<>>
    /\ stress_score = <<>>
    /\ threshold = 0
    /\ labels = <<>>

RngIdle ==
    /\ rng = 0
    /\ first = <<>>

PipeIdle ==
    /\ script = "none"
    /\ pc = "none"
    /\ status = "none"
    /\ failedAt = "none"
    /\ fs = <<>>
    /\ data = <<>>
    /\ model = "none"
    /\ epoch = 0
    /\ tf_model = <<>>
    /\ tflite_model = <<>>
    /\ output = <<>>
    /\ log = <<>>

(***************************************************************************)
(* LabelSpec: a generator applied to a batch of drawn values.              *)
(***************************************************************************)
LabelInit ==
    /\ draws \in Batches
    /\ GenIdle
    /\ RngIdle
    /\ PipeIdle

\* generate_synthetic_data, train_model.py 12-53
GenerateSyntheticData ==
    /\ variant = "none"
    /\ Returned("ensemble", SyntheticDataOf(draws))
    /\ UNCHANGED <<draws, rngVars, pipeVars>>

\* generate_training_data, convert_to_tflite.py 33-60
GenerateTrainingData ==
    /\ variant = "none"
    /\ Returned("compact", TrainingDataOf(draws))
    /\ UNCHANGED <<draws, rngVars, pipeVars>>

LabelNext == GenerateSyntheticData \/ GenerateTrainingData

LabelSpec == LabelInit /\ [][LabelNext]_vars

(***************************************************************************)
(* numpy's global pseudo-random stream.  The Mersenne twister is modelled  *)
(* by a small congruential generator: a state, a seeding function, one     *)
(* state step per variate drawn, each variate a function of the state.     *)
(***************************************************************************)
Seed == 42

RngStates == 0..(RngMod - 1)

RngStep(s) == (5 * s + 3) % RngMod

NotSeeded(s) == s

\* np.random.seed(42): the state no longer depends on the state before
Seeded(s) == Seed % RngMod

\* the k states that follow s
RECURSIVE RngStream(_, _)
RngStream(s, k) == IF k = 0 THEN <<>> ELSE <<RngStep(s)>> \o RngStream(RngStep(s), k - 1)

\* np.random.normal(loc=5.0, scale=1.5): loc + scale * z, z in {-1, 0, 1}
DrawTypingSpeed(s) == 5 * RawDen + 15 * (RawDen \div 10) * ((s % 3) - 1)
\* np.random.beta(a=2, b=10): 0.1, 0.2 or 0.3
DrawBackspaceRatio(s) == (RawDen \div 10) * ((s % 3) + 1)
\* np.random.normal(loc=0.6, scale=0.2)
DrawTouchPressure(s) == 6 * (RawDen \div 10) + 2 * (RawDen \div 10) * ((s % 3) - 1)
\* np.random.exponential(scale=60): 30, 60 or 120 seconds
DrawSessionLength(s) == 30 * RawDen * (IF s % 3 = 0 THEN 1 ELSE IF s % 3 = 1 THEN 2 ELSE 4)

\* the four columns of n variates each, drawn one column after the other
\* (lines 17, 21, 25, 29 / 37-40), starting from state s
DrawBatch(s, n) ==
    LET st == RngStream(s, 4 * n)
    IN  [i \in 1..n |-> Sample(DrawTypingSpeed(st[i]), DrawBackspaceRatio(st[n + i]),
                               DrawTouchPressure(st[2 * n + i]), DrawSessionLength(st[3 * n + i]))]

RngAfter(s, n) == IF n = 0 THEN s ELSE RngStream(s, 4 * n)[4 * n]

(***************************************************************************)
(* RngSpec: calls of the generators in a process whose global stream is in *)
(* any state and is also consumed between the calls.  first remembers the  *)
(* first call of the behaviour: its generator, its count, what it          *)
(* returned, the state of the stream before it, and whether a later call   *)
(* of the same generator and count started from another state.             *)
(***************************************************************************)
NoCall == [gen |-> "none", n |-> 0, dataset |-> <<>>, pre |-> 0, again |-> FALSE]

RngInit ==
    /\ rng \in RngStates
    /\ first = NoCall
    /\ draws = <<>>
    /\ GenIdle
    /\ PipeIdle

Remember(gen, n, ds) ==
    first' = IF first.gen = "none"
             THEN [gen |-> gen, n |-> n, dataset |-> ds, pre |-> rng, again |-> FALSE]
             ELSE IF first.gen = gen /\ first.n = n /\ first.pre # rng
                  THEN [first EXCEPT !.again = TRUE]
                  ELSE first

\* generate_synthetic_data(n), train_model.py 12-53
CallSyntheticData(n) ==
    LET s0 == Seeded(rng)
        d  == DrawBatch(s0, n)
        r  == SyntheticDataOf(d)
    IN  /\ draws' = d
        /\ rng' = RngAfter(s0, n)
        /\ Returned("ensemble", r)
        /\ Remember("ensemble", n, [features |-> r.features, labels |-> r.labels])
        /\ UNCHANGED pipeVars

\* generate_training_data(n), convert_to_tflite.py 33-60
CallTrainingData(n) ==
    LET s0 == Seeded(rng)
        d  == DrawBatch(s0, n)
        r  == TrainingDataOf(d)
    IN  /\ draws' = d
        /\ rng' = RngAfter(s0, n)
        /\ Returned("compact", r)
        /\ Remember("compact", n, [features |-> r.features, labels |-> r.labels])
        /\ UNCHANGED pipeVars

\* any other use of the global stream between two calls
ConsumeStream ==
    /\ rng' = RngStep(rng)
    /\ UNCHANGED <<genVars, first, pipeVars>>

RngNext ==
    \/ \E n \in 1..MaxCallN : CallSyntheticData(n)
    \/ \E n \in 1..MaxCallN : CallTrainingData(n)
    \/ ConsumeStream

RngSpec == RngInit /\ [][RngNext]_vars

(***************************************************************************)
(* The scripts.  A network is represented by the probability it gives the  *)
(* fixed sample input [0.5, 0.3, 0.7, -0.2] (convert_to_tflite.py 114),    *)
(* the only input a script feeds a network after training: a value in      *)
(* 1/ProbOne, or NaN.                                                      *)
(***************************************************************************)
NSynthetic == 1000
NTraining == 2000
Epochs == 50

Val(v) == [nan |-> FALSE, v |-> v]
NaN == [nan |-> TRUE, v |-> 0]

\* the outputs of a sigmoid unit
Probs == { Val(v) : v \in 0..ProbOne } \cup { NaN }

NoNet == [made |-> FALSE, out |-> Val(0), plateau |-> FALSE]
NoBytes == [made |-> FALSE, out |-> Val(0)]
NoOutput == [made |-> FALSE, out |-> Val(0)]

Absent == [state |-> "absent", origin |-> "none", out |-> Val(0)]
Earlier(st) == [state |-> st, origin |-> "earlier", out |-> Val(0)]
Written(o) == [state |-> "full", origin |-> "run", out |-> o]
Truncated == [state |-> "partial", origin |-> "run", out |-> Val(0)]

Files == {"stress_rf_model.pkl", "stress_model.keras", "stress_model.tflite"}

\* the statements of each script, in program order
StageOrder(s) ==
    IF s = "ensemble"
    THEN <<"generate", "split", "create", "fit", "evaluate", "save", "report">>
    ELSE <<"load", "generate", "split", "create", "fit", "evaluate", "save",
           "convert", "write", "verify">>

\* the stage of script s that writes file f
WriterOf(s, f) ==
    IF s = "ensemble"
    THEN (IF f = "stress_rf_model.pkl" THEN "save" ELSE "never")
    ELSE (IF f = "stress_model.keras" THEN "save"
          ELSE IF f = "stress_model.tflite" THEN "write" ELSE "never")

PipeInit ==
    /\ script \in {"ensemble", "compact"}
    /\ pc = StageOrder(script)[1]
    /\ status = "running"
    /\ failedAt = "none"
    /\ fs \in { [f \in Files |-> IF f = "stress_rf_model.pkl" THEN a
                                 ELSE IF f = "stress_model.keras" THEN b ELSE c] :
                a \in {Absent, Earlier("full"), Earlier("partial")},
                b \in {Absent, Earlier("full")},
                c \in {Absent, Earlier("full")} }
    /\ data = [n |-> 0, train |-> 0, test |-> 0]
    /\ model = "none"
    /\ epoch = 0
    /\ tf_model = NoNet
    /\ tflite_model = NoBytes
    /\ output = NoOutput
    /\ log = <<>>
    /\ draws = <<>>
    /\ GenIdle
    /\ RngIdle

\* the script is about to execute the statement; it touches nothing else
At(stage) ==
    /\ status = "running"
    /\ pc = stage
    /\ UNCHANGED <<genVars, rngVars>>

\* a statement returns: the next statement is the one after it
Completed(stage, next) ==
    /\ pc' = next
    /\ log' = Append(log, stage)
    /\ UNCHANGED <<status, failedAt>>

NoFile == "none"

\* the files after a statement has raised: as they were, but for the file the
\* statement was writing, which was not opened, or was opened and cut short
AfterRaise(target) ==
    IF target = NoFile THEN { fs } ELSE { fs, [fs EXCEPT ![target] = Truncated] }

RaiseAndRollBack(stage, target) ==
    /\ status' = "aborted"
    /\ failedAt' = stage
    /\ fs' = [f \in Files |-> IF fs[f].origin = "run" THEN Absent ELSE fs[f]]
    /\ UNCHANGED <<script, pc, data, model, epoch, tf_model, tflite_model, output, log>>

\* a statement raises: no handler in either script, the interpreter exits
Raise(stage, target) ==
    /\ status' = "aborted"
    /\ failedAt' = stage
    /\ fs' \in AfterRaise(target)
    /\ UNCHANGED <<script, pc, data, model, epoch, tf_model, tflite_model, output, log>>

\* model = joblib.load("stress_rf_model.pkl"), convert_to_tflite.py 7
LoadForest ==
    /\ At("load")
    /\ script = "compact"
    /\ \/ /\ fs["stress_rf_model.pkl"].state = "full"
          /\ model' = "loaded"
          /\ Completed("load", "generate")
          /\ UNCHANGED <<script, fs, data, epoch, tf_model, tflite_model, output>>
       \/ /\ fs["stress_rf_model.pkl"].state # "full"
          /\ Raise("load", NoFile)

\* df = generate_synthetic_data() / X, y = generate_training_data()
Generate ==
    /\ At("generate")
    /\ \/ /\ data' = [data EXCEPT !.n = IF script = "ensemble" THEN NSynthetic ELSE NTraining]
          /\ Completed("generate", "split")
          /\ UNCHANGED <<script, fs, model, epoch, tf_model, tflite_model, output>>
       \/ /\ Raise("generate", NoFile)

\* train_test_split(test_size=0.2) / split = int(0.8 * len(X))
Split ==
    /\ At("split")
    /\ \/ /\ data' = [data EXCEPT !.train = (8 * data.n) \div 10,
                                  !.test = data.n - (8 * data.n) \div 10]
          /\ Completed("split", "create")
          /\ UNCHANGED <<script, fs, model, epoch, tf_model, tflite_model, output>>
       \/ /\ Raise("split", NoFile)

\* RandomForestClassifier(...) / create_stress_model()
Create ==
    /\ At("create")
    /\ \/ /\ IF script = "ensemble"
             THEN model' = "unfitted" /\ UNCHANGED tf_model
             ELSE (\E p \in Probs \ {NaN} : tf_model' = [made |-> TRUE, out |-> p, plateau |-> FALSE])
                  /\ UNCHANGED model
          /\ Completed("create", "fit")
          /\ UNCHANGED <<script, fs, data, epoch, tflite_model, output>>
       \/ /\ Raise("create", NoFile)

\* model.fit(X_train, y_train), train_model.py 75
FitForest ==
    /\ At("fit")
    /\ script = "ensemble"
    /\ \/ /\ model' = "fitted"
          /\ Completed("fit", "evaluate")
          /\ UNCHANGED <<script, fs, data, epoch, tf_model, tflite_model, output>>
       \/ /\ Raise("fit", NoFile)

\* the weights after one more epoch: NaN weights stay NaN
NextWeights(net) == IF net.out.nan THEN {NaN} ELSE Probs

TrainEpochEarlyStop ==
    /\ At("fit")
    /\ script = "compact"
    /\ epoch < Epochs
    /\ \/ /\ epoch' = epoch + 1
          /\ \E p \in NextWeights(tf_model), flat \in BOOLEAN :
                 /\ tf_model' = [tf_model EXCEPT !.out = p, !.plateau = flat]
                 /\ IF epoch' = Epochs \/ flat
                    THEN Completed("fit", "evaluate")
                    ELSE UNCHANGED <<pc, log, status, failedAt>>
          /\ UNCHANGED <<script, fs, data, model, tflite_model, output>>
       \/ /\ Raise("fit", NoFile)

\* one epoch of tf_model.fit(..., epochs=50, batch_size=32), no callbacks
TrainEpoch ==
    /\ At("fit")
    /\ script = "compact"
    /\ epoch < Epochs
    /\ \/ /\ epoch' = epoch + 1
          /\ \E p \in NextWeights(tf_model), flat \in BOOLEAN :
                 tf_model' = [tf_model EXCEPT !.out = p, !.plateau = flat]
          /\ IF epoch' = Epochs
             THEN Completed("fit", "evaluate")
             ELSE UNCHANGED <<pc, log, status, failedAt>>
          /\ UNCHANGED <<script, fs, data, model, tflite_model, output>>
       \/ /\ Raise("fit", NoFile)

EvaluateSkipSave ==
    /\ At("evaluate")
    /\ \/ /\ Completed("evaluate", IF script = "ensemble" THEN "report" ELSE "convert")
          /\ UNCHANGED <<script, fs, data, model, epoch, tf_model, tflite_model, output>>
       \/ /\ Raise("evaluate", NoFile)

\* model.predict + accuracy_score + classification_report / tf_model.evaluate
Evaluate ==
    /\ At("evaluate")
    /\ \/ /\ Completed("evaluate", "save")
          /\ UNCHANGED <<script, fs, data, model, epoch, tf_model, tflite_model, output>>
       \/ /\ Raise("evaluate", NoFile)

\* joblib.dump(model, "stress_rf_model.pkl"), train_model.py 85-87
DumpForest ==
    /\ At("save")
    /\ script = "ensemble"
    /\ \/ /\ fs' = [fs EXCEPT !["stress_rf_model.pkl"] = Written(Val(0))]
          /\ Completed("save", "report")
          /\ UNCHANGED <<script, data, model, epoch, tf_model, tflite_model, output>>
       \/ /\ Raise("save", "stress_rf_model.pkl")

\* the feature importances, train_model.py 90-92; then train_model returns
Report ==
    /\ At("report")
    /\ \/ /\ status' = "done"
          /\ log' = Append(log, "report")
          /\ UNCHANGED <<script, pc, failedAt, fs, data, model, epoch, tf_model,
                         tflite_model, output>>
       \/ /\ Raise("report", NoFile)

\* tf_model.save("stress_model.keras"), convert_to_tflite.py 88
SaveKeras ==
    /\ At("save")
    /\ script = "compact"
    /\ \/ /\ fs' = [fs EXCEPT !["stress_model.keras"] = Written(tf_model.out)]
          /\ Completed("save", "convert")
          /\ UNCHANGED <<script, data, model, epoch, tf_model, tflite_model, output>>
       \/ /\ Raise("save", "stress_model.keras")

\* the prediction of the converted network: that of the source network moved
\* by e, inside the range of the sigmoid
Quantize(o, e) ==
    IF o.nan THEN NaN
    ELSE Val(IF o.v + e < 0 THEN 0 ELSE IF o.v + e > ProbOne THEN ProbOne ELSE o.v + e)

\* TFLiteConverter.from_keras_model(tf_model), Optimize.DEFAULT, convert(); 93-95
Convert ==
    /\ At("convert")
    /\ \/ /\ \E e \in (0 - MaxQErr)..MaxQErr :
                 tflite_model' = [made |-> TRUE, out |-> Quantize(tf_model.out, e)]
          /\ Completed("convert", "write")
          /\ UNCHANGED <<script, fs, data, model, epoch, tf_model, output>>
       \/ /\ Raise("convert", NoFile)

\* with open("stress_model.tflite", "wb") as f: f.write(tflite_model); 98-100
WriteTflite ==
    /\ At("write")
    /\ \/ /\ fs' = [fs EXCEPT !["stress_model.tflite"] = Written(tflite_model.out)]
          /\ Completed("write", "verify")
          /\ UNCHANGED <<script, data, model, epoch, tf_model, tflite_model, output>>
       \/ /\ Raise("write", "stress_model.tflite")

VerifySourceNetwork ==
    /\ At("verify")
    /\ \/ /\ output' = [made |-> TRUE, out |-> tf_model.out]
          /\ status' = "done"
          /\ log' = Append(log, "verify")
          /\ UNCHANGED <<script, pc, failedAt, fs, data, model, epoch, tf_model, tflite_model>>
       \/ /\ Raise("verify", NoFile)

\* Interpreter(model_path=tflite_path), set_tensor(test_input), invoke(),
\* get_tensor, print, return tflite_path; 107-120.  The value read is printed
\* and nothing is checked.
Verify ==
    /\ At("verify")
    /\ \/ /\ fs["stress_model.tflite"].state = "full"
          /\ output' = [made |-> TRUE, out |-> fs["stress_model.tflite"].out]
          /\ status' = "done"
          /\ log' = Append(log, "verify")
          /\ UNCHANGED <<script, pc, failedAt, fs, data, model, epoch, tf_model, tflite_model>>
       \/ /\ Raise("verify", NoFile)

PipeNext ==
    \/ LoadForest
    \/ Generate
    \/ Split
    \/ Create
    \/ FitForest
    \/ TrainEpoch
    \/ Evaluate
    \/ DumpForest
    \/ Report
    \/ SaveKeras
    \/ Convert
    \/ WriteTflite
    \/ Verify

PipeSpec == PipeInit /\ [][PipeNext]_vars

\* a running interpreter executes its next statement
FairPipeSpec == PipeSpec /\ WF_vars(PipeNext)

(***************************************************************************)
(* Properties of the generators (LabelSpec).                               *)
(***************************************************************************)
Generated == variant # "none"

Positives == { i \in DOMAIN labels : labels[i] = 1 }

DistinctScores ==
    \A i, j \in DOMAIN stress_score : i # j => stress_score[i] # stress_score[j]

\* C1: in both generators the label of a sample is 1 exactly when its stress
\* score is strictly greater than the 70th percentile of the stress scores of
\* the same batch, and 0 otherwise; a score equal to the threshold gives 0.
C1_LabelIffAboveThreshold ==
    Generated =>
        /\ DOMAIN labels = DOMAIN draws
        /\ DOMAIN stress_score = DOMAIN draws
        /\ threshold = Percentile(stress_score, 70)
        /\ \A i \in DOMAIN labels :
               /\ labels[i] \in {0, 1}
               /\ labels[i] = 1 <=> PctDen * stress_score[i] > Percentile(stress_score, 70)

\* a batch with a sample on the threshold, labelled 0, and a sample above it
C1_Witness ==
    /\ Generated
    /\ \E i \in DOMAIN labels : PctDen * stress_score[i] = threshold /\ labels[i] = 0
    /\ \E j \in DOMAIN labels : labels[j] = 1

\* 0.5*typing_speed + w_b*backspace_ratio + w_p*touch_pressure - 0.1*session_length
\* of a raw sample (in hundredths), in 1/10000, the weights w_b and w_p given
\* in tenths; a score in 1/ScoreDen(v) equals it when ScoreDen(v)/10000 times
\* this number is the score
ClaimedScore(r, wb, wp) ==
    50 * r.typing_speed + 10 * wb * r.backspace_ratio + 10 * wp * r.touch_pressure
        - 10 * r.session_length

IsNormalised(x, r, c, s) == x * s * RawDen = (10 * r - c * RawDen) * NormDen

TopCount(n) == n - 1 - ((70 * (n - 1)) \div 100)

\* round(0.30 * n)
Round30(n) == (3 * n + 5) \div 10

\* the two order statistics np.percentile interpolates between are equal
BoundaryTie ==
    LET lo == (70 * (Len(stress_score) - 1)) \div 100
    IN  /\ Len(stress_score) > 1
        /\ KthSmallest(stress_score, lo) = KthSmallest(stress_score, lo + 1)

\* C3: the number of samples labelled 1 is that of the top 30% by rank,
\* TopCount(N), which is within 1 of round(0.30*N); with N distinct scores
\* exactly the TopCount(N) highest scores are labelled 1; the count differs
\* from TopCount(N) only by being lower, and only when scores tie at the
\* percentile boundary.
C3_LabelBalance ==
    Generated =>
        LET n == Len(labels)
        IN  /\ Cardinality(Positives) <= TopCount(n)
            /\ Abs(TopCount(n) - Round30(n)) <= 1
            /\ Cardinality(Positives) = TopCount(n) <=> ~BoundaryTie
            /\ DistinctScores =>
                   /\ Cardinality(Positives) = TopCount(n)
                   /\ \A i \in DOMAIN labels :
                          labels[i] = 1 <=>
                              Cardinality({ j \in DOMAIN labels :
                                              stress_score[j] > stress_score[i] }) < TopCount(n)

\* eight distinct scores: three are labelled 1, one more than round(2.4)
C3_Witness ==
    /\ Generated
    /\ DistinctScores
    /\ Len(labels) = 8
    /\ Cardinality(Positives) = 3
    /\ Round30(Len(labels)) = 2

(***************************************************************************)
(* Properties of the seeding (RngSpec).                                    *)
(***************************************************************************)
\* C8: a call of a generator returns the dataset (features and labels) that
\* the first call of the same generator with the same sample count returned,
\* whatever the state of the global stream before either call.
C8_SameCallSameDataset ==
    (variant # "none" /\ variant = first.gen /\ Len(labels) = first.n) =>
        [features |-> features, labels |-> labels] = first.dataset

\* the generator of the first call has been called again with the same count
\* from another state of the stream, and its dataset is the one at hand
C8_Witness ==
    /\ first.again
    /\ variant = first.gen
    /\ Len(labels) = first.n
    /\ rng # first.pre

(***************************************************************************)
(* Properties of the scripts (PipeSpec, FairPipeSpec).                     *)
(***************************************************************************)
IsPrefix(a, b) == Len(a) <= Len(b) /\ \A i \in DOMAIN a : a[i] = b[i]

Ran(stage) == stage \in Range(log)

Succeeded == status = "done"

InUnitInterval(o) == ~o.nan /\ 0 <= o.v /\ o.v <= ProbOne

\* 0.05 of probability
Tolerance == ProbOne \div 20

Agree(a, b) == ~a.nan /\ ~b.nan /\ Abs(a.v - b.v) <= Tolerance

\* C4 as stated: the compact script needs no artifact of the ensemble script:
\* started without stress_rf_model.pkl it does not stop at the statement that
\* reads that file.
C4_CompactNeedsNoEnsembleFile ==
    (script = "compact" /\ fs["stress_rf_model.pkl"].state = "absent" /\ status = "aborted")
        => failedAt # "load"

\* C5 as stated: a run of the compact script that returns the compact model
\* path has read a sample prediction that is finite and in [0, 1].
C5_SelfCheckRejectsInvalidOutput ==
    (script = "compact" /\ Succeeded) => InUnitInterval(output.out)

\* C6 as stated: a successful run of the compact script has compared the
\* compact prediction with the prediction of the full-precision network on
\* the sample input, and they differ by no more than the tolerance.
C6_ComparedWithinTolerance ==
    (script = "compact" /\ Succeeded) =>
        /\ Ran("compare")
        /\ Agree(output.out, tf_model.out)

\* C6, amended: a successful run of the compact script has run the persisted
\* compact model on the sample input and reported that prediction; it has
\* made no comparison with the full-precision network, whose prediction may
\* differ from it by more than the tolerance.
C6_ReportsCompactPredictionOnly ==
    (script = "compact" /\ Succeeded) =>
        /\ output.made
        /\ fs["stress_model.tflite"] = Written(tflite_model.out)
        /\ output.out = fs["stress_model.tflite"].out
        /\ \E e \in (0 - MaxQErr)..MaxQErr : output.out = Quantize(tf_model.out, e)
        /\ log = StageOrder("compact")
        /\ ~Ran("compare")

\* a successful run whose compact prediction is further from the prediction
\* of the source network than the tolerance
C6_Witness ==
    /\ script = "compact"
    /\ Succeeded
    /\ InUnitInterval(output.out)
    /\ ~Agree(output.out, tf_model.out)

\* the files an earlier statement of this run has written
PersistedEarlier(f) == Ran(WriterOf(script, f))

KerasPersisted == fs["stress_model.keras"].origin = "run" /\ Ran("save")

\* C9: in the compact script the epochs are entered one at a time in
\* increasing order up to 50, the fit is left only when epoch 50 has completed,
\* stress_model.keras is written only after that, whether or not the loss has
\* stopped improving, and every run that does not raise writes it.
C9_FiftyEpochsThenPersisted ==
    /\ [][ script = "compact" =>
               /\ epoch' # epoch => (epoch' = epoch + 1 /\ epoch < Epochs /\ pc = "fit")
               /\ (pc = "fit" /\ pc' # "fit") => epoch' = Epochs ]_vars
    /\ []((script = "compact" /\ fs["stress_model.keras"].origin = "run") => epoch = Epochs)
    /\ []((script = "compact" /\ pc # "fit" /\ Ran("create")) => epoch = Epochs)
    /\ (script = "compact" => <>(status = "aborted" \/ KerasPersisted))

\* the network is persisted after 50 epochs, the last of which showed a plateau
C9_Witness ==
    /\ script = "compact"
    /\ KerasPersisted
    /\ fs["stress_model.keras"] = Written(tf_model.out)
    /\ epoch = Epochs
    /\ tf_model.plateau

\* C10: the stages of a script complete in program order, each at most once:
\* a model file is written only after fit and evaluate; the conversion starts
\* only when stress_model.keras holds the trained network; the verification
\* starts only when stress_model.tflite holds the whole converted model.
C10_StagesInOrder ==
    /\ IsPrefix(log, StageOrder(script))
    /\ status = "running" => pc = StageOrder(script)[Len(log) + 1]
    /\ \A f \in Files : fs[f].origin = "run" => (Ran("fit") /\ Ran("evaluate"))
    /\ (Ran("save") /\ script = "ensemble") => model = "fitted"
    /\ (script = "compact" /\ (pc = "convert" \/ Ran("convert"))) =>
           fs["stress_model.keras"] = Written(tf_model.out)
    /\ (script = "compact" /\ (pc = "verify" \/ Ran("verify"))) =>
           fs["stress_model.tflite"] = Written(tflite_model.out)

\* a compact run that has completed every stage
C10_Witness ==
    /\ script = "compact"
    /\ Succeeded
    /\ log = StageOrder("compact")
    /\ output.made

====
